---- MODULE Spec2Model ----
(***************************************************************************)
(* Provisioning scripts of the tile-serving deployment:                    *)
(*   init-download.py    download_area, get_latest_version                 *)
(*   extract-btrfs.py    extract_tiles, mount_btrfs, unmount_btrfs         *)
(*   download-assets.py  download_asset, download_sprites                  *)
(*   generate-nginx-config.py  generate_tile_locations,                    *)
(*                       generate_latest_redirects, main                   *)
(* The filesystem is the only shared state.  External tools (aria2c,       *)
(* unpigz, rm, losetup, mount, rsync, tar) are steps whose outcome is      *)
(* chosen nondeterministically among the outcomes the tool can produce.    *)
(***************************************************************************)
EXTENDS Integers, Sequences, FiniteSets, TLC

VARIABLES
    script,       \* which script's processes are running in this deployment
    pc,           \* per process: position in the script
    arg,          \* per process: <<area, version>> (or asset) being acquired
    ret,          \* per process: value returned by the last call
    free_space,   \* download_area local (line 114)
    file_size,    \* download_area local (line 116)
    tmp_dir,      \* <output_dir>/_tmp exists
    gz,           \* <output_dir>/_tmp/tiles.btrfs.gz : {} or {content}
    img,          \* <output_dir>/_tmp/tiles.btrfs    : {} or {content}
    final,        \* <output_dir>/<area>/<version>/tiles.btrfs per pair
    faults,       \* number of tool failures / terminations so far
    acquired,     \* history: items whose acquisition has returned True
    exit_status,  \* per process: exit status of the script, once it has ended
    error_logged, \* per process: this run printed an error or a traceback
    queue,        \* items the running script has still to visit
    success,      \* the `success` flag of the running script
    payload,      \* per pair: what the btrfs image holds (tiles/, metadata.json)
    out_dir,      \* per pair: <tiles_dir>/<area>/<version> exists
    tiles,        \* per pair: <tiles_dir>/<area>/<version>/tiles
    metadata,     \* per pair: <tiles_dir>/<area>/<version>/metadata.json exists
    attached,     \* loop devices attached to an image
    mounted,      \* loop devices mounted on a temporary mount point
    mb_loop_device, \* mount_btrfs local `loop_device` (line 28)
    loop_device,  \* extract_tiles local `loop_device` (lines 77, 81)
    archive,      \* per asset: <assets_dir>/<asset>/ofm.tar.gz : {} or {content}
    ofm,          \* per asset: <assets_dir>/<asset>/ofm
    sprite_dir,   \* per sprite version: <assets_dir>/sprites/<version>
    temp_archive, \* <assets_dir>/sprites/temp.tar.gz : {} or {content}
    sprites_remote, \* download_sprites: sprite versions still to visit
    http_ok,      \* get_latest_version: the listing request succeeded
    listing,      \* get_latest_version: lines of files.txt
    area_req,     \* get_latest_version: the area asked for
    latest,       \* get_latest_version: returned value
    remote,       \* per process: this invocation has issued a remote request
    tiles_dir,    \* generate-nginx-config: TILES_DIR of the running publish run
    domain,       \* generate-nginx-config: NGINX_HOST of the running publish run
    plain,        \* names under the tiles root that are plain files
    tilejson,     \* per pair: <tiles_dir>/<area>/<version>/tilejson.json
    area_dirs,    \* generate-nginx-config: area entries still to visit
    version_dirs, \* generate_tile_locations: version entries still to visit
    version_configs, \* generate_tile_locations: the list `configs`
    latest_configs,  \* generate_latest_redirects: the list `configs`
    versions_conf,   \* /etc/nginx/includes/tiles-versions.conf : {} or {text}
    latest_conf,     \* /etc/nginx/includes/tiles-latest.conf : {} or {text}
    rewritten     \* history, per pair: hostname of the last manifest update,
                  \* and whether the update before it had the same hostname

vars == <<script, pc, arg, ret, free_space, file_size, tmp_dir, gz, img,
          final, faults, acquired, exit_status, error_logged, queue, success,
          payload, out_dir, tiles, metadata, attached, mounted,
          mb_loop_device, loop_device,
          archive, ofm, sprite_dir, temp_archive, sprites_remote,
          http_ok, listing, area_req, latest, remote,
          tiles_dir, domain, plain, tilejson, area_dirs, version_dirs,
          version_configs, latest_configs, versions_conf, latest_conf,
          rewritten>>

(***************************************************************************)
(* Bounds                                                                  *)
(***************************************************************************)
MaxFaults == 1
MaxFree == 3
MaxSize == 1
MaxLines == 3
NumLoopDevs == 2
NumSprites == 2

Procs == {"A", "B"}

\* the scenarios in which extract-btrfs.py and generate-nginx-config.py run
Deployment == "extract-btrfs | generate-nginx-config"
ExtractScripts == {"extract-btrfs", Deployment}
PublishScripts == {"generate-nginx-config", Deployment}

(***************************************************************************)
(* Strings are sequences of ASCII code points, so that substring tests,    *)
(* split('/') and the ordering used by sorted() are computed as Python     *)
(* computes them.                                                          *)
(***************************************************************************)
str_slash == <<47>>
str_areas == <<97,114,101,97,115>>
str_archive == <<116,105,108,101,115,46,98,116,114,102,115,46,103,122>>
str_image == <<116,105,108,101,115,46,98,116,114,102,115>>
str_planet == <<112,108,97,110,101,116>>
str_europe == <<101,117,114,111,112,101>>
str_backup == <<98,97,99,107,117,112>>
str_latest == <<108,97,116,101,115,116>>
str_v1 == <<49>>
str_v2 == <<50>>
str_v12 == <<49,50>>

\* Python: pat in s
Contains(s, pat) ==
    \E k \in 0..(Len(s) - Len(pat)) : SubSeq(s, k + 1, k + Len(pat)) = pat

\* Python: s.split('/')
RECURSIVE Split(_)
Split(s) ==
    IF \A k \in 1..Len(s) : <<s[k]>> # str_slash
    THEN <<s>>
    ELSE LET k == CHOOSE j \in 1..Len(s) :
                     /\ <<s[j]>> = str_slash
                     /\ \A m \in 1..(j - 1) : <<s[m]>> # str_slash
         IN  <<SubSeq(s, 1, k - 1)>> \o Split(SubSeq(s, k + 1, Len(s)))

\* Python: a < b on str (code point order, a proper prefix sorts first)
LexLess(a, b) ==
    \E k \in 0..Len(a) :
        /\ k <= Len(b)
        /\ SubSeq(a, 1, k) = SubSeq(b, 1, k)
        /\ \/ (k = Len(a) /\ k < Len(b))
           \/ (k < Len(a) /\ k < Len(b) /\ a[k + 1] < b[k + 1])

LexLeq(a, b) == a = b \/ LexLess(a, b)

\* Python: sorted(list of str)
RECURSIVE Insert(_, _)
Insert(x, s) ==
    IF s = <<>> THEN <<x>>
    ELSE IF LexLess(x, Head(s)) THEN <<x>> \o s
         ELSE <<Head(s)>> \o Insert(x, Tail(s))

RECURSIVE sorted(_)
sorted(s) == IF s = <<>> THEN <<>> ELSE Insert(Head(s), sorted(Tail(s)))

\* '/'.join(segments)
RECURSIVE Path(_)
Path(segs) ==
    IF Len(segs) = 1 THEN segs[1]
    ELSE segs[1] \o str_slash \o Path(Tail(segs))

(***************************************************************************)
(* init-download.py : get_latest_version                                   *)
(***************************************************************************)
None == [tag |-> "None", val |-> <<>>]
Pending == [tag |-> "pending", val |-> <<>>]
Str(v) == [tag |-> "str", val |-> v]

\* line 59: the filter applied to one listing line
line_matches(line, area) ==
    /\ Contains(line, str_areas \o str_slash \o area \o str_slash)
    /\ Contains(line, str_archive)

\* lines 56-64: the list `versions`, in listing order
RECURSIVE collect_versions(_, _)
collect_versions(lines, area) ==
    IF lines = <<>> THEN <<>>
    ELSE LET line == Head(lines)
             parts == Split(line)
             rest == collect_versions(Tail(lines), area)
         IN  IF line_matches(line, area) /\ Len(parts) >= 4
             THEN <<parts[3]>> \o rest
             ELSE rest

\* line 71
pick_latest_wrong(versions) == versions[Len(versions)]
pick_latest(versions) == sorted(versions)[Len(versions)]

\* lines 55-73
get_latest_version(lines, area) ==
    LET versions == collect_versions(lines, area)
    IN  IF versions = <<>> THEN None ELSE Str(pick_latest(versions))

(***************************************************************************)
(* Remote listings                                                         *)
(***************************************************************************)
ArchiveLine(area, version) == Path(<<str_areas, area, version, str_archive>>)

LineSet ==
    { ArchiveLine(str_planet, str_v1),
      ArchiveLine(str_planet, str_v2),
      ArchiveLine(str_planet, str_v12),
      ArchiveLine(str_europe, str_v2),
      Path(<<str_backup, str_areas, str_planet, str_v2, str_archive>>),
      Path(<<str_areas, str_planet, str_archive>>),
      Path(<<str_areas, str_planet, str_v2, str_image>>) }

RECURSIVE SeqsUpTo(_, _)
SeqsUpTo(S, n) ==
    IF n = 0 THEN {<<>>}
    ELSE LET shorter == SeqsUpTo(S, n - 1)
         IN  shorter \cup {Append(s, x) : s \in shorter, x \in S}

Listings == SeqsUpTo(LineSet, MaxLines)
ResolverAreas == {str_planet, str_europe}

(***************************************************************************)
(* init-download.py : download_area                                        *)
(***************************************************************************)
Areas == {str_planet}
Versions == {str_v1, str_v2}
Pairs == Areas \X Versions

\* what files.txt may hold while images are being downloaded
RemoteListings ==
    { <<>>,
      <<ArchiveLine(str_planet, str_v1)>>,
      <<ArchiveLine(str_planet, str_v2), ArchiveLine(str_planet, str_v1)>> }

Content(p, complete) == [pair |-> p, full |-> complete]
FileOf(f) == CHOOSE c \in f : TRUE

Idle(i) == pc[i] \in {"idle", "done"}

\* past the `btrfs_file.exists()` test of lines 96-98, before returning
InSection(i) ==
    pc[i] \in {"dl_mkdir", "dl_preflight", "dl_gate",
               "dl_download", "dl_unpigz", "dl_rename", "dl_rm"}

\* lines 152-163 of init-download.py: exit status of the script
ExitOf(r) ==
    CASE r = "True" -> "0"
      [] r = "killed" -> "killed"
      [] OTHER -> "1"

Finish(i, r) ==
    /\ pc' = [pc EXCEPT ![i] = "done"]
    /\ ret' = [ret EXCEPT ![i] = r]
    /\ acquired' = IF r = "True" THEN acquired \cup {arg[i]} ELSE acquired
    /\ exit_status' = [exit_status EXCEPT ![i] = ExitOf(r)]
    /\ error_logged' = [error_logged EXCEPT ![i] = @ \/ r \in {"False", "raised"}]
    /\ remote' = [remote EXCEPT ![i] = FALSE]

Goto(i, l) ==
    /\ pc' = [pc EXCEPT ![i] = l]
    /\ UNCHANGED <<ret, acquired, exit_status, error_logged, remote>>

\* the step issues a request to the CDN (requests.get / requests.head / aria2c)
GotoRemote(i, l) ==
    /\ pc' = [pc EXCEPT ![i] = l]
    /\ remote' = [remote EXCEPT ![i] = TRUE]
    /\ UNCHANGED <<ret, acquired, exit_status, error_logged>>

resolver_vars == <<http_ok, listing, area_req, latest>>
pub_fs == <<plain, tilejson, versions_conf, latest_conf>>
pub_vars == <<tiles_dir, domain, pub_fs, area_dirs, version_dirs,
              version_configs, latest_configs, rewritten>>
ex_fs == <<out_dir, tiles, metadata, attached, mounted>>
ex_vars == <<payload, ex_fs, mb_loop_device, loop_device>>
as_fs == <<archive, ofm, sprite_dir, temp_archive>>
as_vars == <<as_fs, sprites_remote>>
run_vars == <<queue, success>>
dl_frame == <<script, run_vars, ex_vars, as_vars, resolver_vars, pub_vars>>
dl_locals == <<free_space, file_size>>
dl_fs == <<tmp_dir, gz, img, final>>

\* lines 80-86: entry of download_area(area, version)
Invoke(i, a, v) ==
    /\ script = "init-download"
    /\ Idle(i)
    /\ arg' = [arg EXCEPT ![i] = <<a, v>>]
    /\ pc' = [pc EXCEPT ![i] = IF v = str_latest THEN "dl_resolve" ELSE "dl_check"]
    /\ ret' = [ret EXCEPT ![i] = "none"]
    /\ free_space' = [free_space EXCEPT ![i] = 0]
    /\ file_size' = [file_size EXCEPT ![i] = 0]
    /\ exit_status' = [exit_status EXCEPT ![i] = "none"]
    /\ error_logged' = [error_logged EXCEPT ![i] = FALSE]
    /\ UNCHANGED <<dl_frame, dl_fs, faults, acquired, remote>>

\* lines 86-90: version == 'latest'
ResolveLatest(i) ==
    /\ pc[i] = "dl_resolve"
    /\ \E ok \in BOOLEAN, lines \in RemoteListings :
          LET version == IF ok THEN get_latest_version(lines, arg[i][1]) ELSE None
          IN  IF version.tag = "None" \/ version.val = <<>>
              THEN Finish(i, "False") /\ UNCHANGED arg
              ELSE /\ GotoRemote(i, "dl_check")
                   /\ arg' = [arg EXCEPT ![i] = <<arg[i][1], version.val>>]
    /\ UNCHANGED <<dl_frame, dl_locals, dl_fs, faults>>

\* lines 92-98: skip if already exists
CheckExists(i) ==
    /\ pc[i] = "dl_check"
    /\ IF final[arg[i]] # {}
       THEN Finish(i, "True")
       ELSE Goto(i, "dl_mkdir")
    /\ UNCHANGED <<dl_frame, arg, dl_locals, dl_fs, faults>>

\* lines 100-102
MkTemp(i) ==
    /\ pc[i] = "dl_mkdir"
    /\ tmp_dir' = TRUE
    /\ Goto(i, "dl_preflight")
    /\ UNCHANGED <<dl_frame, arg, dl_locals, gz, img, final, faults>>

\* lines 112-116: os.statvfs raises when _tmp has been removed meanwhile;
\* get_remote_file_size (lines 13-21) answers 0 when the size is unknown
Preflight(i) ==
    /\ pc[i] = "dl_preflight"
    /\ IF tmp_dir
       THEN /\ \E f \in 0..MaxFree : free_space' = [free_space EXCEPT ![i] = f]
            /\ \E s \in 0..MaxSize : file_size' = [file_size EXCEPT ![i] = s]
            /\ GotoRemote(i, "dl_gate")
       ELSE /\ Finish(i, "raised")
            /\ UNCHANGED dl_locals
    /\ UNCHANGED <<dl_frame, arg, dl_fs, faults>>

\* line 127
not_enough_wrong(free, size) == free <= size * 3
not_enough(free, size) == free < size * 3

\* lines 117-131
SpaceGate(i) ==
    /\ pc[i] = "dl_gate"
    /\ IF file_size[i] # 0 /\ not_enough(free_space[i], file_size[i])
       THEN /\ Finish(i, "False")
            /\ free_space' = [free_space EXCEPT ![i] = 0]
            /\ file_size' = [file_size EXCEPT ![i] = 0]
       ELSE /\ Goto(i, "dl_download")
            /\ UNCHANGED dl_locals
    /\ UNCHANGED <<dl_frame, arg, dl_fs, faults>>

\* aria2c -d dir -o name url, exit status 0: when the output file already
\* exists the transfer either replaces/resumes it or is saved under a
\* renamed sibling, leaving the existing file as it was
aria2c_ok(existing, new) ==
    IF existing = {} THEN {{new}} ELSE {{new}, existing}

\* aria2c, non-zero exit status or terminated: nothing or a partial file
aria2c_failed(existing, partial) == {existing, {partial}}

\* line 134: download_file_aria2 (lines 24-40), check=True
DownloadOk(i) ==
    /\ pc[i] = "dl_download"
    /\ gz' \in aria2c_ok(gz, Content(arg[i], TRUE))
    /\ tmp_dir' = TRUE
    /\ GotoRemote(i, "dl_unpigz")
    /\ free_space' = [free_space EXCEPT ![i] = 0]
    /\ file_size' = [file_size EXCEPT ![i] = 0]
    /\ UNCHANGED <<dl_frame, arg, img, final, faults>>

DownloadFail(i) ==
    /\ pc[i] = "dl_download"
    /\ faults < MaxFaults
    /\ faults' = faults + 1
    /\ gz' \in aria2c_failed(gz, Content(arg[i], FALSE))
    /\ tmp_dir' = (tmp_dir \/ gz' # {})
    /\ Finish(i, "raised")
    /\ free_space' = [free_space EXCEPT ![i] = 0]
    /\ file_size' = [file_size EXCEPT ![i] = 0]
    /\ UNCHANGED <<dl_frame, arg, img, final>>

\* line 138: unpigz <_tmp/tiles.btrfs.gz>, exit status 0.  The archive is
\* complete; the image is written and the archive removed - unless an
\* output file is already there, which unpigz does not overwrite
UnpigzOk(i) ==
    /\ pc[i] = "dl_unpigz"
    /\ gz # {}
    /\ FileOf(gz).full
    /\ IF img = {}
       THEN /\ img' = {Content(FileOf(gz).pair, TRUE)}
            /\ gz' = {}
       ELSE UNCHANGED <<gz, img>>
    /\ Goto(i, "dl_rename")
    /\ UNCHANGED <<dl_frame, arg, dl_locals, tmp_dir, final, faults>>

\* line 138, non-zero exit status that the files on disk determine: no
\* archive, a truncated archive, or an output file that is in the way
UnpigzRefuse(i) ==
    /\ pc[i] = "dl_unpigz"
    /\ \/ /\ gz = {}
          /\ UNCHANGED img
       \/ /\ gz # {}
          /\ ~FileOf(gz).full
          /\ img' \in IF img = {}
                      THEN {{}, {Content(FileOf(gz).pair, FALSE)}}
                      ELSE {img}
       \/ /\ gz # {}
          /\ FileOf(gz).full
          /\ img # {}
          /\ UNCHANGED img
    /\ Finish(i, "raised")
    /\ UNCHANGED <<dl_frame, arg, dl_locals, tmp_dir, gz, final, faults>>

\* line 138, unpigz fails or is terminated half way: a partial image may stay
UnpigzFail(i) ==
    /\ pc[i] = "dl_unpigz"
    /\ gz # {}
    /\ FileOf(gz).full
    /\ img = {}
    /\ faults < MaxFaults
    /\ faults' = faults + 1
    /\ img' \in {{}, {Content(FileOf(gz).pair, FALSE)}}
    /\ Finish(i, "raised")
    /\ UNCHANGED <<dl_frame, arg, dl_locals, tmp_dir, gz, final>>

\* lines 141-143: mkdir of the version directory and Path.rename
moved_wrong(staged, p) == {}
moved(staged, p) == staged

RenameIntoPlace(i) ==
    /\ pc[i] = "dl_rename"
    /\ IF img = {}
       THEN /\ Finish(i, "raised")
            /\ UNCHANGED <<img, final>>
       ELSE /\ final' = [final EXCEPT ![arg[i]] = moved(img, arg[i])]
            /\ img' = {}
            /\ Goto(i, "dl_rm")
    /\ UNCHANGED <<dl_frame, arg, dl_locals, tmp_dir, gz, faults>>

\* lines 145-149: rm -rf _tmp, then return True
RemoveTemp(i) ==
    /\ pc[i] = "dl_rm"
    /\ tmp_dir' = FALSE
    /\ gz' = {}
    /\ img' = {}
    /\ Finish(i, "True")
    /\ UNCHANGED <<dl_frame, arg, dl_locals, final, faults>>

\* line 146: rm exits non-zero, check=True raises
RemoveTempFail(i) ==
    /\ pc[i] = "dl_rm"
    /\ faults < MaxFaults
    /\ faults' = faults + 1
    /\ Finish(i, "raised")
    /\ UNCHANGED <<dl_frame, arg, dl_locals, dl_fs>>

\* the operator terminates the process between two steps
Terminate(i) ==
    /\ script = "init-download"
    /\ ~Idle(i)
    /\ faults < MaxFaults
    /\ faults' = faults + 1
    /\ Finish(i, "killed")
    /\ free_space' = [free_space EXCEPT ![i] = 0]
    /\ file_size' = [file_size EXCEPT ![i] = 0]
    /\ UNCHANGED <<dl_frame, arg, dl_fs>>

DownloadStep(i) ==
    \/ \E a \in Areas, v \in Versions \cup {str_latest} : Invoke(i, a, v)
    \/ ResolveLatest(i)
    \/ CheckExists(i)
    \/ MkTemp(i)
    \/ Preflight(i)
    \/ SpaceGate(i)
    \/ DownloadOk(i)
    \/ DownloadFail(i)
    \/ UnpigzOk(i)
    \/ UnpigzRefuse(i)
    \/ UnpigzFail(i)
    \/ RenameIntoPlace(i)
    \/ RemoveTemp(i)
    \/ RemoveTempFail(i)
    \/ Terminate(i)

NextDownload == \E i \in Procs : DownloadStep(i)

(***************************************************************************)
(* extract-btrfs.py : extract_all_areas, extract_tiles, mount_btrfs,       *)
(* unmount_btrfs.  One process; the script visits every image in turn.     *)
(***************************************************************************)
Runner == "A"
NoDev == 0
LoopDevs == 1..NumLoopDevs

WholeImage == [tiles |-> TRUE, metadata |-> TRUE]
ImageKinds ==
    { WholeImage,
      [tiles |-> TRUE, metadata |-> FALSE],
      [tiles |-> FALSE, metadata |-> FALSE] }

\* the orders in which iterdir() may yield the members of S
RECURSIVE Orders(_)
Orders(S) ==
    IF S = {} THEN {<<>>}
    ELSE UNION {{<<x>> \o o : o \in Orders(S \ {x})} : x \in S}

At(l) == pc[Runner] = l
To(l) == pc' = [pc EXCEPT ![Runner] = l]
Item == arg[Runner]

\* line 69: tiles_output.exists() and (tiles_output / 'tiles').exists()
already_extracted(p) == out_dir[p] /\ tiles[p] # "absent"

dl_all == <<dl_locals, dl_fs>>
ex_frame == <<script, dl_all, payload, as_vars, resolver_vars, remote, pub_vars>>

\* extract_tiles returns r to extract_all_areas (line 158)
ExReturn(r) ==
    /\ To("ex_returned")
    /\ ret' = [ret EXCEPT ![Runner] = r]
    /\ acquired' = IF r = "True" THEN acquired \cup {Item} ELSE acquired
    /\ error_logged' = [error_logged EXCEPT ![Runner] = @ \/ r = "False"]
    /\ UNCHANGED exit_status

\* the `return` statements inside try (lines 89, 115, 119): finally runs next
ExLeaveTry(r) ==
    /\ To(IF loop_device = NoDev THEN "ex_cleanup" ELSE "ex_umount")
    /\ ret' = [ret EXCEPT ![Runner] = r]
    /\ error_logged' = [error_logged EXCEPT ![Runner] = @ \/ r = "False"]
    /\ UNCHANGED <<acquired, exit_status>>

ExGoto(l) ==
    /\ To(l)
    /\ UNCHANGED <<ret, acquired, exit_status, error_logged>>

ExFault ==
    /\ faults < MaxFaults
    /\ faults' = faults + 1

\* lines 164-177 and 129-137: the script starts
ExStart ==
    /\ script \in ExtractScripts
    /\ Idle(Runner)
    /\ queue' \in Orders({p \in Pairs : final[p] # {}})
    /\ success' = TRUE
    /\ To("ex_next")
    /\ arg' = [arg EXCEPT ![Runner] = <<>>]
    /\ ret' = [ret EXCEPT ![Runner] = "none"]
    /\ exit_status' = [exit_status EXCEPT ![Runner] = "none"]
    /\ error_logged' = [error_logged EXCEPT ![Runner] = FALSE]
    /\ mb_loop_device' = NoDev
    /\ loop_device' = NoDev
    /\ UNCHANGED <<ex_frame, ex_fs, faults, acquired>>

\* lines 140-158 and 161, 177-183: next image, or the end of the script
ExNext ==
    /\ At("ex_next")
    /\ IF queue = <<>>
       THEN /\ To("done")
            /\ exit_status' = [exit_status EXCEPT ![Runner] = IF success THEN "0" ELSE "1"]
            /\ UNCHANGED <<arg, queue, ret>>
       ELSE /\ To("ex_gate")
            /\ arg' = [arg EXCEPT ![Runner] = Head(queue)]
            /\ queue' = Tail(queue)
            /\ ret' = [ret EXCEPT ![Runner] = "none"]
            /\ UNCHANGED exit_status
    /\ mb_loop_device' = NoDev
    /\ loop_device' = NoDev
    /\ UNCHANGED <<ex_frame, ex_fs, faults, acquired, error_logged, success>>

\* lines 56-77: image present?  already extracted?
ExGate ==
    /\ At("ex_gate")
    /\ IF final[Item] = {} THEN ExReturn("False")
       ELSE IF already_extracted(Item) THEN ExReturn("True")
       ELSE ExGoto("ex_find")
    /\ UNCHANGED <<ex_frame, ex_fs, arg, run_vars, faults, mb_loop_device, loop_device>>

\* lines 16-28: losetup -f; it fails when every loop device is taken
ExFindLoop ==
    /\ At("ex_find")
    /\ IF LoopDevs \subseteq attached
       THEN /\ ExReturn("False")
            /\ UNCHANGED mb_loop_device
       ELSE /\ mb_loop_device' \in LoopDevs \ attached
            /\ ExGoto("ex_attach")
    /\ UNCHANGED <<ex_frame, ex_fs, arg, run_vars, faults, loop_device>>

\* lines 31-34: losetup <dev> <image>
ExAttach ==
    /\ At("ex_attach")
    /\ attached' = attached \cup {mb_loop_device}
    /\ ExGoto("ex_mount")
    /\ UNCHANGED <<ex_frame, out_dir, tiles, metadata, mounted, arg, run_vars,
                   faults, mb_loop_device, loop_device>>

\* lines 31-34 failing: nothing attached; except (line 117), finally, return
ExAttachFail ==
    /\ At("ex_attach")
    /\ ExFault
    /\ ExReturn("False")
    /\ UNCHANGED <<ex_frame, ex_fs, arg, run_vars, mb_loop_device, loop_device>>

\* lines 37-42 and 81: mount; only now extract_tiles learns the device
ExMount ==
    /\ At("ex_mount")
    /\ mounted' = mounted \cup {mb_loop_device}
    /\ loop_device' = mb_loop_device
    /\ ExGoto("ex_check")
    /\ UNCHANGED <<ex_frame, out_dir, tiles, metadata, attached, arg, run_vars,
                   faults, mb_loop_device>>

\* lines 37-40 failing: the exception leaves mount_btrfs before line 42, so
\* loop_device of extract_tiles is still None when finally runs (line 123)
ExMountFail ==
    /\ At("ex_mount")
    /\ ExFault
    /\ ExReturn("False")
    /\ UNCHANGED <<ex_frame, ex_fs, arg, run_vars, mb_loop_device, loop_device>>

\* lines 84-92: the image must hold tiles/; create the output directory
ExCheckTiles ==
    /\ At("ex_check")
    /\ IF payload[Item].tiles
       THEN /\ out_dir' = [out_dir EXCEPT ![Item] = TRUE]
            /\ ExGoto("ex_rsync")
       ELSE /\ ExLeaveTry("False")
            /\ UNCHANGED out_dir
    /\ UNCHANGED <<ex_frame, tiles, metadata, attached, mounted, arg, run_vars,
                   faults, mb_loop_device, loop_device>>

\* lines 101-107: rsync is running; tiles/ exists and holds part of the tiles
ExRsyncCopying ==
    /\ At("ex_rsync")
    /\ tiles[Item] = "absent"
    /\ tiles' = [tiles EXCEPT ![Item] = "partial"]
    /\ UNCHANGED <<ex_frame, out_dir, metadata, attached, mounted, arg, run_vars,
                   faults, mb_loop_device, loop_device, pc, ret, acquired,
                   exit_status, error_logged>>

\* lines 101-107: rsync -a, exit status 0
ExRsync ==
    /\ At("ex_rsync")
    /\ tiles' = [tiles EXCEPT ![Item] = "full"]
    /\ ExGoto("ex_metadata")
    /\ UNCHANGED <<ex_frame, out_dir, metadata, attached, mounted, arg, run_vars,
                   faults, mb_loop_device, loop_device>>

\* what a copy that stops half way leaves of a directory
stopped_half_way(old) ==
    IF old = "full" THEN {"full"} ELSE {old, "partial"}

\* lines 101-107 failing: except (line 117), return False
ExRsyncFail ==
    /\ At("ex_rsync")
    /\ ExFault
    /\ \E t \in stopped_half_way(tiles[Item]) : tiles' = [tiles EXCEPT ![Item] = t]
    /\ ExLeaveTry("False")
    /\ UNCHANGED <<ex_frame, out_dir, metadata, attached, mounted, arg, run_vars,
                   mb_loop_device, loop_device>>

\* lines 109-115: copy metadata.json when the image has one, return True
ExCopyMetadata ==
    /\ At("ex_metadata")
    /\ metadata' = [metadata EXCEPT ![Item] = @ \/ payload[Item].metadata]
    /\ ExLeaveTry("True")
    /\ UNCHANGED <<ex_frame, out_dir, tiles, attached, mounted, arg, run_vars,
                   faults, mb_loop_device, loop_device>>

\* lines 121-124 and 47-50: umount
ExUmount ==
    /\ At("ex_umount")
    /\ mounted' = mounted \ {loop_device}
    /\ ExGoto("ex_detach")
    /\ UNCHANGED <<ex_frame, out_dir, tiles, metadata, attached, arg, run_vars,
                   faults, mb_loop_device, loop_device>>

\* line 50 failing: caught at line 52, losetup -d is skipped
ExUmountFail ==
    /\ At("ex_umount")
    /\ ExFault
    /\ ExGoto("ex_cleanup")
    /\ UNCHANGED <<ex_frame, ex_fs, arg, run_vars, mb_loop_device, loop_device>>

\* line 51: losetup -d
ExDetach ==
    /\ At("ex_detach")
    /\ attached' = attached \ {loop_device}
    /\ ExGoto("ex_cleanup")
    /\ UNCHANGED <<ex_frame, out_dir, tiles, metadata, mounted, arg, run_vars,
                   faults, mb_loop_device, loop_device>>

\* line 51 failing: caught at line 52
ExDetachFail ==
    /\ At("ex_detach")
    /\ ExFault
    /\ ExGoto("ex_cleanup")
    /\ UNCHANGED <<ex_frame, ex_fs, arg, run_vars, mb_loop_device, loop_device>>

\* line 76, end of the with block: TemporaryDirectory removes the mount
\* point; this raises while the image is still mounted on it, and the
\* exception ends the script (extract_all_areas has no handler)
ExCleanup ==
    /\ At("ex_cleanup")
    /\ IF mb_loop_device \in mounted
       THEN /\ To("done")
            /\ ret' = [ret EXCEPT ![Runner] = "raised"]
            /\ exit_status' = [exit_status EXCEPT ![Runner] = "1"]
            /\ error_logged' = [error_logged EXCEPT ![Runner] = TRUE]
            /\ UNCHANGED acquired
       ELSE ExReturn(ret[Runner])
    /\ UNCHANGED <<ex_frame, ex_fs, arg, run_vars, faults, mb_loop_device, loop_device>>

\* lines 158-159
ExRecord ==
    /\ At("ex_returned")
    /\ success' = (success /\ ret[Runner] = "True")
    /\ ExGoto("ex_next")
    /\ UNCHANGED <<ex_frame, ex_fs, arg, queue, faults, mb_loop_device, loop_device>>

\* the operator terminates the script: no finally, no cleanup
ExTerminate ==
    /\ script \in ExtractScripts
    /\ ~Idle(Runner)
    /\ ExFault
    /\ To("done")
    /\ ret' = [ret EXCEPT ![Runner] = "killed"]
    /\ exit_status' = [exit_status EXCEPT ![Runner] = "killed"]
    /\ UNCHANGED <<ex_frame, ex_fs, arg, run_vars, acquired, error_logged,
                   mb_loop_device, loop_device>>

NextExtract ==
    \/ ExStart
    \/ ExNext
    \/ ExGate
    \/ ExFindLoop
    \/ ExAttach
    \/ ExAttachFail
    \/ ExMount
    \/ ExMountFail
    \/ ExCheckTiles
    \/ ExRsyncCopying
    \/ ExRsync
    \/ ExRsyncFail
    \/ ExCopyMetadata
    \/ ExUmount
    \/ ExUmountFail
    \/ ExDetach
    \/ ExDetachFail
    \/ ExCleanup
    \/ ExRecord
    \/ ExTerminate

(***************************************************************************)
(* download-assets.py : download_all_assets, download_asset,               *)
(* download_sprites.  One process.                                         *)
(***************************************************************************)
\* line 125
assets == << <<"fonts">>, <<"styles">>, <<"natural_earth">> >>
Assets == {assets[k] : k \in 1..Len(assets)}
Sprites == {<<"sprites", k>> : k \in 1..NumSprites}

\* what files.txt may list under sprites/ (lines 90-93)
SpriteListings == UNION {Orders(S) : S \in SUBSET Sprites}

\* line 56 / line 99: d.exists() and any(d.iterdir())
populated(d) == d \in {"partial", "full"}

\* what an extraction that stops half way leaves of the target directory
tar_stopped(old) ==
    CASE old = "absent" -> {"absent", "empty", "partial"}
      [] old = "empty" -> {"empty", "partial"}
      [] OTHER -> {old}

as_frame == <<script, dl_all, ex_vars, resolver_vars, remote, pub_vars>>

\* download_asset returns r to download_all_assets (line 129)
AsReturn(r) ==
    /\ To("as_returned")
    /\ ret' = [ret EXCEPT ![Runner] = r]
    /\ acquired' = IF r = "True" THEN acquired \cup {Item} ELSE acquired
    /\ error_logged' = [error_logged EXCEPT ![Runner] = @ \/ r = "False"]
    /\ UNCHANGED exit_status

\* lines 111-112: the error of one sprite version is printed, the loop goes on
SpSkipAfterError ==
    /\ To("sp_next")
    /\ error_logged' = [error_logged EXCEPT ![Runner] = TRUE]
    /\ UNCHANGED <<ret, acquired, exit_status>>

\* lines 138-141 and 121-126: the script starts
AsStart ==
    /\ script = "download-assets"
    /\ Idle(Runner)
    /\ queue' = assets
    /\ success' = TRUE
    /\ sprites_remote' = <<>>
    /\ To("as_next")
    /\ arg' = [arg EXCEPT ![Runner] = <<>>]
    /\ ret' = [ret EXCEPT ![Runner] = "none"]
    /\ exit_status' = [exit_status EXCEPT ![Runner] = "none"]
    /\ error_logged' = [error_logged EXCEPT ![Runner] = FALSE]
    /\ UNCHANGED <<as_frame, as_fs, faults, acquired>>

\* line 128: next asset, or on to the sprites
AsNext ==
    /\ At("as_next")
    /\ IF queue = <<>>
       THEN /\ To("sp_fetch")
            /\ UNCHANGED <<arg, queue>>
       ELSE /\ To("as_gate")
            /\ arg' = [arg EXCEPT ![Runner] = Head(queue)]
            /\ queue' = Tail(queue)
    /\ ret' = [ret EXCEPT ![Runner] = "none"]
    /\ UNCHANGED <<as_frame, as_vars, success, faults, acquired, exit_status,
                   error_logged>>

\* lines 48-61: already downloaded?
AsGate ==
    /\ At("as_gate")
    /\ IF populated(ofm[Item]) THEN AsReturn("True") ELSE ExGoto("as_download")
    /\ UNCHANGED <<as_frame, as_vars, arg, run_vars, faults>>

\* line 64: download_file (lines 13-33), exit status 0
AsDownload ==
    /\ At("as_download")
    /\ \E f \in aria2c_ok(archive[Item], Content(Item, TRUE)) :
          archive' = [archive EXCEPT ![Item] = f]
    /\ ExGoto("as_tar")
    /\ UNCHANGED <<as_frame, ofm, sprite_dir, temp_archive, sprites_remote, arg,
                   run_vars, faults>>

\* line 64 failing: except (line 69), return False
AsDownloadFail ==
    /\ At("as_download")
    /\ ExFault
    /\ \E f \in aria2c_failed(archive[Item], Content(Item, FALSE)) :
          archive' = [archive EXCEPT ![Item] = f]
    /\ AsReturn("False")
    /\ UNCHANGED <<as_frame, ofm, sprite_dir, temp_archive, sprites_remote, arg,
                   run_vars>>

\* line 65: extract_tar_gz (lines 36-45), exit status 0
AsTar ==
    /\ At("as_tar")
    /\ archive[Item] # {}
    /\ FileOf(archive[Item]).full
    /\ ofm' = [ofm EXCEPT ![Item] = "full"]
    /\ ExGoto("as_unlink")
    /\ UNCHANGED <<as_frame, archive, sprite_dir, temp_archive, sprites_remote,
                   arg, run_vars, faults>>

\* line 65, tar fails on a truncated archive: except, return False
AsTarTruncated ==
    /\ At("as_tar")
    /\ archive[Item] # {}
    /\ ~FileOf(archive[Item]).full
    /\ \E d \in tar_stopped(ofm[Item]) : ofm' = [ofm EXCEPT ![Item] = d]
    /\ AsReturn("False")
    /\ UNCHANGED <<as_frame, archive, sprite_dir, temp_archive, sprites_remote,
                   arg, run_vars, faults>>

\* line 65, tar fails half way through a complete archive
AsTarFail ==
    /\ At("as_tar")
    /\ archive[Item] # {}
    /\ FileOf(archive[Item]).full
    /\ ExFault
    /\ \E d \in tar_stopped(ofm[Item]) : ofm' = [ofm EXCEPT ![Item] = d]
    /\ AsReturn("False")
    /\ UNCHANGED <<as_frame, archive, sprite_dir, temp_archive, sprites_remote,
                   arg, run_vars>>

\* lines 66-68: remove the archive, return True
AsUnlink ==
    /\ At("as_unlink")
    /\ archive' = [archive EXCEPT ![Item] = {}]
    /\ AsReturn("True")
    /\ UNCHANGED <<as_frame, ofm, sprite_dir, temp_archive, sprites_remote, arg,
                   run_vars, faults>>

\* lines 129-130
AsRecord ==
    /\ At("as_returned")
    /\ success' = (success /\ ret[Runner] = "True")
    /\ ExGoto("as_next")
    /\ UNCHANGED <<as_frame, as_vars, arg, queue, faults>>

\* lines 74-93: fetch files.txt and keep the sprite archives
SpFetch ==
    /\ At("sp_fetch")
    /\ sprites_remote' \in SpriteListings
    /\ ExGoto("sp_next")
    /\ UNCHANGED <<as_frame, as_fs, arg, run_vars, faults>>

\* lines 86-87 failing: except (line 116), return False; lines 132-133
SpFetchFail ==
    /\ At("sp_fetch")
    /\ ExFault
    /\ success' = FALSE
    /\ To("as_exit")
    /\ error_logged' = [error_logged EXCEPT ![Runner] = TRUE]
    /\ UNCHANGED <<as_frame, as_vars, arg, queue, ret, acquired, exit_status>>

\* lines 95-104 and 114: next sprite version; an existing one is skipped;
\* at the end of the list download_sprites returns True
SpNext ==
    /\ At("sp_next")
    /\ IF sprites_remote = <<>>
       THEN /\ To("as_exit")
            /\ UNCHANGED <<arg, sprites_remote>>
       ELSE /\ arg' = [arg EXCEPT ![Runner] = Head(sprites_remote)]
            /\ sprites_remote' = Tail(sprites_remote)
            /\ To(IF populated(sprite_dir[Head(sprites_remote)])
                  THEN "sp_next" ELSE "sp_download")
    /\ UNCHANGED <<as_frame, as_fs, run_vars, faults, ret, acquired, exit_status,
                   error_logged>>

\* line 107: download_file into temp.tar.gz, exit status 0
SpDownload ==
    /\ At("sp_download")
    /\ temp_archive' \in aria2c_ok(temp_archive, Content(Item, TRUE))
    /\ ExGoto("sp_tar")
    /\ UNCHANGED <<as_frame, archive, ofm, sprite_dir, sprites_remote, arg,
                   run_vars, faults>>

\* line 107 failing: except (line 111)
SpDownloadFail ==
    /\ At("sp_download")
    /\ ExFault
    /\ temp_archive' \in aria2c_failed(temp_archive, Content(Item, FALSE))
    /\ SpSkipAfterError
    /\ UNCHANGED <<as_frame, archive, ofm, sprite_dir, sprites_remote, arg,
                   run_vars>>

\* line 108: tar unpacks whatever temp.tar.gz holds into sprites/
SpTar ==
    /\ At("sp_tar")
    /\ temp_archive # {}
    /\ FileOf(temp_archive).full
    /\ sprite_dir' = [sprite_dir EXCEPT ![FileOf(temp_archive).pair] = "full"]
    /\ ExGoto("sp_unlink")
    /\ UNCHANGED <<as_frame, archive, ofm, temp_archive, sprites_remote, arg,
                   run_vars, faults>>

\* line 108, tar fails on a truncated archive: except (line 111)
SpTarTruncated ==
    /\ At("sp_tar")
    /\ temp_archive # {}
    /\ ~FileOf(temp_archive).full
    /\ LET s == FileOf(temp_archive).pair
       IN  \E d \in tar_stopped(sprite_dir[s]) :
              sprite_dir' = [sprite_dir EXCEPT ![s] = d]
    /\ SpSkipAfterError
    /\ UNCHANGED <<as_frame, archive, ofm, temp_archive, sprites_remote, arg,
                   run_vars, faults>>

\* line 108, tar fails half way through a complete archive
SpTarFail ==
    /\ At("sp_tar")
    /\ temp_archive # {}
    /\ FileOf(temp_archive).full
    /\ ExFault
    /\ LET s == FileOf(temp_archive).pair
       IN  \E d \in tar_stopped(sprite_dir[s]) :
              sprite_dir' = [sprite_dir EXCEPT ![s] = d]
    /\ SpSkipAfterError
    /\ UNCHANGED <<as_frame, archive, ofm, temp_archive, sprites_remote, arg,
                   run_vars>>

\* lines 109-110
SpUnlink ==
    /\ At("sp_unlink")
    /\ temp_archive' = {}
    /\ ExGoto("sp_next")
    /\ UNCHANGED <<as_frame, archive, ofm, sprite_dir, sprites_remote, arg,
                   run_vars, faults>>

\* lines 143-147: exit status of the script
exit_of(ok, logged) == IF ok THEN "0" ELSE "1"

AsExit ==
    /\ At("as_exit")
    /\ To("done")
    /\ exit_status' = [exit_status EXCEPT ![Runner] =
                          exit_of(success, error_logged[Runner])]
    /\ UNCHANGED <<as_frame, as_vars, arg, run_vars, faults, ret, acquired,
                   error_logged>>

\* the operator terminates the script
AsTerminate ==
    /\ script = "download-assets"
    /\ ~Idle(Runner)
    /\ ExFault
    /\ To("done")
    /\ ret' = [ret EXCEPT ![Runner] = "killed"]
    /\ exit_status' = [exit_status EXCEPT ![Runner] = "killed"]
    /\ UNCHANGED <<as_frame, as_vars, arg, run_vars, acquired, error_logged>>

NextAssets ==
    \/ AsStart
    \/ AsNext
    \/ AsGate
    \/ AsDownload
    \/ AsDownloadFail
    \/ AsTar
    \/ AsTarTruncated
    \/ AsTarFail
    \/ AsUnlink
    \/ AsRecord
    \/ SpFetch
    \/ SpFetchFail
    \/ SpNext
    \/ SpDownload
    \/ SpDownloadFail
    \/ SpTar
    \/ SpTarTruncated
    \/ SpTarFail
    \/ SpUnlink
    \/ AsExit
    \/ AsTerminate

(***************************************************************************)
(* Resolver on its own: one call of get_latest_version(area)               *)
(***************************************************************************)
\* lines 43-77
GetLatestVersion ==
    /\ script = "resolver"
    /\ latest = Pending
    /\ latest' = IF http_ok THEN get_latest_version(listing, area_req) ELSE None
    /\ UNCHANGED <<script, pc, arg, ret, dl_all, faults, acquired, exit_status,
                   error_logged, run_vars, ex_vars, as_vars,
                   http_ok, listing, area_req, remote, pub_vars>>

NextResolver == GetLatestVersion

(***************************************************************************)
(* generate-nginx-config.py : generate_tile_locations,                     *)
(* generate_latest_redirects, main.  One process; a run of the script      *)
(* reads TILES_DIR and NGINX_HOST from its environment.                    *)
(***************************************************************************)
Hostnames == {"localhost", "tiles.example.org"}

\* TILES_DIR (line 157): the tiles tree, an empty directory, no directory
DataTiles == "/data/tiles"
TilesDirs == {DataTiles, "/data/new", "/data/missing"}

\* the version and area names of the tiles tree
TreePairs == DOMAIN out_dir
TreeAreas == {p[1] : p \in TreePairs}

\* Path.exists() / Path.is_dir() on the entries of the tree
root_exists(d) == d # "/data/missing"
version_entry(p) == out_dir[p] \/ p \in plain
area_entry(a) == a \in plain \/ \E p \in TreePairs : p[1] = a /\ version_entry(p)
area_is_dir(a) == area_entry(a) /\ a \notin plain
version_is_dir(p) == out_dir[p] /\ p \notin plain
tiles_exists(p) == version_is_dir(p) /\ tiles[p] # "absent"
metadata_exists(p) == version_is_dir(p) /\ metadata[p]
tilejson_exists(p) == version_is_dir(p) /\ tilejson[p] # {}

\* sorted(<dir>.iterdir()): iterdir() yields the names in any order
iterdir_root(d) == IF d = DataTiles THEN {a \in TreeAreas : area_entry(a)} ELSE {}
iterdir_area(d, a) ==
    IF d = DataTiles /\ area_is_dir(a)
    THEN {p[2] : p \in {q \in TreePairs : q[1] = a /\ version_entry(q)}}
    ELSE {}
sorted_names(S) == sorted(CHOOSE o \in Orders(S) : TRUE)

(***************************************************************************)
(* The manifest document tilejson.json.  The bytes of the file are a       *)
(* layout (as first written, or compact as json.dump with                  *)
(* separators=(',', ':') writes it) and the members in textual order.      *)
(***************************************************************************)
Garbage == [kind |-> "garbage", layout |-> "none", members |-> <<>>]
JsonArray == [kind |-> "array", layout |-> "pretty", members |-> <<>>]
JsonObject(layout, members) ==
    [kind |-> "object", layout |-> layout, members |-> members]

\* JSON values: a string, or a list of URL templates
JsonString(s) == [type |-> "str", text |-> s, urls |-> <<>>]
JsonList(urls) == [type |-> "list", text |-> "", urls |-> urls]

\* line 47: the one-element list holding the URL template
tiles_url(scheme, host, area, version) ==
    JsonList(<<[scheme |-> scheme, host |-> host, area |-> area,
                version |-> version, template |-> "{z}/{x}/{y}.pbf"]>>)

\* dict.__setitem__: an existing key keeps its position
dict_set_wrong(d, k, v) == Append(d, <<k, v>>)
dict_set(d, k, v) ==
    IF \E n \in 1..Len(d) : d[n][1] = k
    THEN [n \in 1..Len(d) |-> IF d[n][1] = k THEN <<k, v>> ELSE d[n]]
    ELSE Append(d, <<k, v>>)

\* json.load of an object: members in order, the last of equal keys wins
RECURSIVE dict_of(_, _)
dict_of(acc, members) ==
    IF members = <<>> THEN acc
    ELSE dict_of(dict_set(acc, Head(members)[1], Head(members)[2]),
                 Tail(members))

NotRewritten == [host |-> "none", again |-> FALSE]

\* line 43
json_load(doc) ==
    CASE doc.kind = "object" -> [type |-> "dict", items |-> dict_of(<<>>, doc.members)]
      [] doc.kind = "array" -> [type |-> "list", items |-> <<>>]
      [] OTHER -> [type |-> "JSONDecodeError", items |-> <<>>]

\* line 50
json_dump(items) == JsonObject("compact", items)

\* line 46
protocol_wrong(host) == IF host = "localhost" THEN "https" ELSE "http"
protocol(host) == IF host # "localhost" THEN "https" ELSE "http"

\* lines 41-52: the bytes of tilejson.json after the update; a document that
\* does not parse, or is not an object, raises inside `try` and stays as it is
update_raises(doc) == json_load(doc).type # "dict"
update_tilejson(doc, host, area, version) ==
    IF update_raises(doc) THEN doc
    ELSE json_dump(dict_set(json_load(doc).items, "tiles",
                            tiles_url(protocol(host), host, area, version)))

\* manifests found in a version directory before the first publish run
UpstreamUrl(p) == tiles_url("https", "tiles.openfreemap.org", p[1], p[2])
PlainManifest(p) ==
    JsonObject("pretty", << <<"name", JsonString("OpenFreeMap")>>,
                            <<"tiles", UpstreamUrl(p)>>,
                            <<"attribution", JsonString("OpenStreetMap")>> >>)
ManifestDocs(p) ==
    { Garbage,
      JsonArray,
      PlainManifest(p),
      JsonObject("pretty", << <<"tiles", UpstreamUrl(p)>>,
                              <<"name", JsonString("OpenFreeMap")>>,
                              <<"tiles", JsonList(<<>>)>> >>),
      JsonObject("compact", << <<"name", JsonString("OpenFreeMap")>> >>),
      JsonObject("compact", << <<"tiles", tiles_url("http", "localhost", p[1], p[2])>> >>) }

(***************************************************************************)
(* Routing fragments.  A fragment is the text of its location blocks; the  *)
(* parts of the text that vary are the names and the three paths.          *)
(***************************************************************************)
PathIn(d, area, version, name) ==
    [dir |-> d, area |-> area, version |-> version, name |-> name]

\* Path.exists() of a path named in a fragment
path_exists(f) ==
    /\ f.dir = DataTiles
    /\ <<f.area, f.version>> \in TreePairs
    /\ CASE f.name = "tilejson.json" -> tilejson_exists(<<f.area, f.version>>)
         [] f.name = "tiles" -> tiles_exists(<<f.area, f.version>>)
         [] OTHER -> version_is_dir(<<f.area, f.version>>)

\* lines 55-81: `location = /<area>/<version>` and `location ^~ /<area>/<version>/`
version_config(d, area, version) ==
    [comment |-> "Specific version", area |-> area, version |-> version,
     exact_alias |-> PathIn(d, area, version, "tilejson.json"),
     prefix_alias |-> PathIn(d, area, version, "tiles")]

\* lines 112-150: `location = /<area>` and the two wildcard locations
latest_config(d, area, latest_version) ==
    [comment |-> "Latest version redirect", area |-> area,
     version |-> latest_version,
     exact_alias |-> PathIn(d, area, latest_version, "tilejson.json"),
     wildcard_root |-> PathIn(d, area, latest_version, ""),
     tiles_root |-> PathIn(d, area, latest_version, "tiles")]

\* lines 170 and 184: '\n'.join(config for ... in configs)
join(configs) == [n \in 1..Len(configs) |-> configs[n].config]

\* line 36: `not tiles_path.exists() or not metadata_path.exists()`, the two
\* tests made one after the other
publishable_wrong(has_tiles, has_metadata) == has_tiles
publishable(has_tiles, has_metadata) == has_tiles /\ has_metadata

\* lines 99-103: the greatest name among the version directories of an area
latest_of(d, area) ==
    LET versions == sorted_names({v \in iterdir_area(d, area) :
                                    version_is_dir(<<area, v>>)})
    IN  IF versions = <<>> THEN None ELSE Str(versions[Len(versions)])

\* the publish run is a process of its own
Publisher == "B"
PubAt(l) == pc[Publisher] = l
PubTo(l) == pc' = [pc EXCEPT ![Publisher] = l]

pub_frame == <<script, dl_all, ex_vars, as_vars, resolver_vars, remote, faults,
               acquired, run_vars, ret, plain>>

\* lines 156-167 and 10-21: main reads its environment and calls
\* generate_tile_locations, which lists the tiles directory
PubStart(d, h) ==
    /\ script \in PublishScripts
    /\ Idle(Publisher)
    /\ tiles_dir' = d
    /\ domain' = h
    /\ version_configs' = <<>>
    /\ latest_configs' = <<>>
    /\ version_dirs' = <<>>
    /\ arg' = [arg EXCEPT ![Publisher] = <<>>]
    /\ exit_status' = [exit_status EXCEPT ![Publisher] = "none"]
    /\ error_logged' = [error_logged EXCEPT ![Publisher] = FALSE]
    /\ IF root_exists(d)
       THEN /\ area_dirs' = sorted_names(iterdir_root(d))
            /\ PubTo("pub_area")
       ELSE /\ area_dirs' = <<>>
            /\ PubTo("pub_write_versions")
    /\ UNCHANGED <<pub_frame, tilejson, versions_conf, latest_conf, rewritten>>

\* lines 21-27: the next entry of the tiles directory
PubArea ==
    /\ PubAt("pub_area")
    /\ IF area_dirs = <<>>
       THEN /\ PubTo("pub_write_versions")
            /\ UNCHANGED <<area_dirs, arg, version_dirs>>
       ELSE LET area == Head(area_dirs)
            IN  /\ area_dirs' = Tail(area_dirs)
                /\ arg' = [arg EXCEPT ![Publisher] = <<area>>]
                /\ version_dirs' = IF area_is_dir(area)
                                   THEN sorted_names(iterdir_area(tiles_dir, area))
                                   ELSE <<>>
                /\ PubTo("pub_version")
    /\ UNCHANGED <<pub_frame, tiles_dir, domain, tilejson, version_configs,
                   latest_configs, versions_conf, latest_conf, rewritten,
                   exit_status, error_logged>>

\* lines 27-36: the next entry of the area directory; a name that is not a
\* directory, or a directory without tiles/, is passed over
PubVersion ==
    /\ PubAt("pub_version")
    /\ IF version_dirs = <<>>
       THEN /\ PubTo("pub_area")
            /\ UNCHANGED <<version_dirs, arg>>
       ELSE LET area == arg[Publisher][1]
                version == Head(version_dirs)
                p == <<area, version>>
            IN  /\ version_dirs' = Tail(version_dirs)
                /\ arg' = [arg EXCEPT ![Publisher] = p]
                /\ IF version_is_dir(p) /\ tiles_exists(p)
                   THEN PubTo("pub_metadata")
                   ELSE UNCHANGED pc
    /\ UNCHANGED <<pub_frame, tiles_dir, domain, area_dirs, tilejson, rewritten,
                   version_configs, latest_configs, versions_conf, latest_conf,
                   exit_status, error_logged>>

\* lines 36-82: tiles/ was found; metadata.json is looked for now, and when
\* it is there the manifest is updated and the fragment appended
PubMetadata ==
    /\ PubAt("pub_metadata")
    /\ LET area == arg[Publisher][1]
           version == arg[Publisher][2]
           p == <<area, version>>
       IN  IF publishable(TRUE, metadata_exists(p))
           THEN /\ IF tilejson_exists(p)
                   THEN LET doc == FileOf(tilejson[p])
                        IN  /\ tilejson' = [tilejson EXCEPT ![p] =
                                  {update_tilejson(doc, domain, area, version)}]
                            /\ rewritten' = [rewritten EXCEPT ![p] =
                                  [host |-> domain, again |-> @.host = domain]]
                            /\ error_logged' = [error_logged EXCEPT
                                  ![Publisher] = @ \/ update_raises(doc)]
                   ELSE UNCHANGED <<tilejson, rewritten, error_logged>>
                /\ version_configs' = Append(version_configs,
                      [area |-> area, version |-> version,
                       config |-> version_config(tiles_dir, area, version)])
           ELSE UNCHANGED <<tilejson, rewritten, version_configs, error_logged>>
    /\ PubTo("pub_version")
    /\ UNCHANGED <<pub_frame, tiles_dir, domain, area_dirs, version_dirs, arg,
                   latest_configs, versions_conf, latest_conf, exit_status>>

\* lines 169-181 and 87-92: tiles-versions.conf is written when the list is
\* not empty; generate_latest_redirects then lists the tiles directory, and
\* iterdir() raises FileNotFoundError when there is none
PubWriteVersions ==
    /\ PubAt("pub_write_versions")
    /\ versions_conf' = IF version_configs # <<>>
                        THEN {join(version_configs)}
                        ELSE versions_conf
    /\ IF root_exists(tiles_dir)
       THEN /\ area_dirs' = sorted_names(iterdir_root(tiles_dir))
            /\ PubTo("pub_latest")
            /\ UNCHANGED <<exit_status, error_logged>>
       ELSE /\ UNCHANGED area_dirs
            /\ PubTo("done")
            /\ exit_status' = [exit_status EXCEPT ![Publisher] = "1"]
            /\ error_logged' = [error_logged EXCEPT ![Publisher] = TRUE]
    /\ UNCHANGED <<pub_frame, tiles_dir, domain, tilejson, version_dirs, arg,
                   version_configs, latest_configs, latest_conf, rewritten>>

\* lines 92-151: the next entry of the tiles directory
PubLatest ==
    /\ PubAt("pub_latest")
    /\ IF area_dirs = <<>>
       THEN /\ PubTo("pub_write_latest")
            /\ UNCHANGED <<area_dirs, latest_configs>>
       ELSE LET area == Head(area_dirs)
                latest_version == latest_of(tiles_dir, area)
            IN  /\ area_dirs' = Tail(area_dirs)
                /\ UNCHANGED pc
                /\ IF /\ area_is_dir(area)
                      /\ latest_version # None
                      /\ tiles_exists(<<area, latest_version.val>>)
                      /\ tilejson_exists(<<area, latest_version.val>>)
                   THEN latest_configs' = Append(latest_configs,
                           [area |-> area,
                            config |-> latest_config(tiles_dir, area,
                                                     latest_version.val)])
                   ELSE UNCHANGED latest_configs
    /\ UNCHANGED <<pub_frame, tiles_dir, domain, tilejson, version_dirs, arg,
                   version_configs, versions_conf, latest_conf, rewritten,
                   exit_status, error_logged>>

\* lines 183-194: tiles-latest.conf is written when the list is not empty
PubWriteLatest ==
    /\ PubAt("pub_write_latest")
    /\ latest_conf' = IF latest_configs # <<>>
                      THEN {join(latest_configs)}
                      ELSE latest_conf
    /\ PubTo("done")
    /\ exit_status' = [exit_status EXCEPT ![Publisher] = "0"]
    /\ UNCHANGED <<pub_frame, tiles_dir, domain, tilejson, version_dirs, arg,
                   area_dirs, version_configs, latest_configs, versions_conf,
                   rewritten, error_logged>>

NextPublish ==
    \/ \E d \in TilesDirs, h \in Hostnames : PubStart(d, h)
    \/ PubArea
    \/ PubVersion
    \/ PubMetadata
    \/ PubWriteVersions
    \/ PubLatest
    \/ PubWriteLatest

(***************************************************************************)
(* Initial states                                                          *)
(***************************************************************************)
InitProcs ==
    /\ pc = [i \in Procs |-> "idle"]
    /\ arg = [i \in Procs |-> <<>>]
    /\ ret = [i \in Procs |-> "none"]
    /\ free_space = [i \in Procs |-> 0]
    /\ file_size = [i \in Procs |-> 0]
    /\ faults = 0
    /\ acquired = {}
    /\ exit_status = [i \in Procs |-> "none"]
    /\ error_logged = [i \in Procs |-> FALSE]
    /\ queue = <<>>
    /\ success = TRUE
    /\ remote = [i \in Procs |-> FALSE]

InitBtrfsDir ==
    /\ tmp_dir = FALSE
    /\ gz = {}
    /\ img = {}
    /\ final = [p \in Pairs |-> {}]

InitTilesDir ==
    /\ out_dir = [p \in Pairs |-> FALSE]
    /\ tiles = [p \in Pairs |-> "absent"]
    /\ metadata = [p \in Pairs |-> FALSE]
    /\ attached = {}
    /\ mounted = {}
    /\ mb_loop_device = NoDev
    /\ loop_device = NoDev

InitAssetsDir ==
    /\ archive = [n \in Assets |-> {}]
    /\ ofm = [n \in Assets |-> "absent"]
    /\ sprite_dir = [v \in Sprites |-> "absent"]
    /\ temp_archive = {}
    /\ sprites_remote = <<>>

InitNoResolver ==
    /\ http_ok = TRUE
    /\ listing = <<>>
    /\ area_req = str_planet
    /\ latest = None

\* generate-nginx-config.py has not run
InitNoPublish ==
    /\ tiles_dir = DataTiles
    /\ domain = "localhost"
    /\ area_dirs = <<>>
    /\ version_dirs = <<>>
    /\ version_configs = <<>>
    /\ latest_configs = <<>>
    /\ versions_conf = {}
    /\ latest_conf = {}

InitNoManifests ==
    /\ plain = {}
    /\ tilejson = [p \in Pairs |-> {}]
    /\ rewritten = [p \in Pairs |-> NotRewritten]

InitDownload ==
    /\ InitNoPublish
    /\ InitNoManifests
    /\ script = "init-download"
    /\ InitProcs
    /\ InitBtrfsDir
    /\ InitTilesDir
    /\ InitAssetsDir
    /\ payload = [p \in Pairs |-> WholeImage]
    /\ InitNoResolver

InitResolver ==
    /\ InitNoPublish
    /\ InitNoManifests
    /\ script = "resolver"
    /\ InitProcs
    /\ InitBtrfsDir
    /\ InitTilesDir
    /\ InitAssetsDir
    /\ payload = [p \in Pairs |-> WholeImage]
    /\ http_ok \in BOOLEAN
    /\ listing \in Listings
    /\ area_req \in ResolverAreas
    /\ latest = Pending

InitExtract ==
    /\ InitNoPublish
    /\ InitNoManifests
    /\ script = "extract-btrfs"
    /\ InitProcs
    /\ tmp_dir = FALSE
    /\ gz = {}
    /\ img = {}
    /\ \E present \in SUBSET Pairs :
          final = [p \in Pairs |-> IF p \in present THEN {Content(p, TRUE)} ELSE {}]
    /\ InitTilesDir
    /\ InitAssetsDir
    /\ payload \in [Pairs -> ImageKinds]
    /\ InitNoResolver

InitAssets ==
    /\ InitNoPublish
    /\ InitNoManifests
    /\ script = "download-assets"
    /\ InitProcs
    /\ InitBtrfsDir
    /\ InitTilesDir
    /\ InitAssetsDir
    /\ payload = [p \in Pairs |-> WholeImage]
    /\ InitNoResolver

\* the tiles tree the publisher finds: two versions of one area, one of another
PubPairs == {<<str_planet, str_v12>>, <<str_planet, str_v2>>, <<str_europe, str_v1>>}

\* what a name inside an area directory can be: nothing, a plain file, or a
\* version directory holding any of tiles/, metadata.json and tilejson.json
VersionEntries(docs) ==
    {[entry |-> "absent", tiles |-> "absent", metadata |-> FALSE, manifest |-> {}],
     [entry |-> "file", tiles |-> "absent", metadata |-> FALSE, manifest |-> {}]}
    \cup [entry : {"dir"}, tiles : {"absent", "full"}, metadata : BOOLEAN,
          manifest : {{}} \cup {{doc} : doc \in docs}]

\* a version directory with tiles/ and metadata.json, and any manifest or none
CompleteEntries(docs) ==
    [entry : {"dir"}, tiles : {"full"}, metadata : {TRUE},
     manifest : {{}} \cup {{doc} : doc \in docs}]

Trees(Entries(_)) ==
    {tree \in [PubPairs -> UNION {Entries(p) : p \in PubPairs}] :
        \A p \in PubPairs : tree[p] \in Entries(p)}

InitTree(tree) ==
    /\ out_dir = [p \in PubPairs |-> tree[p].entry = "dir"]
    /\ tiles = [p \in PubPairs |-> tree[p].tiles]
    /\ metadata = [p \in PubPairs |-> tree[p].metadata]
    /\ tilejson = [p \in PubPairs |-> tree[p].manifest]
    /\ \E area_files \in SUBSET {a \in {p[1] : p \in PubPairs} :
                \A p \in PubPairs : p[1] = a => tree[p].entry = "absent"} :
          plain = area_files \cup {p \in PubPairs : tree[p].entry = "file"}
    /\ rewritten = [p \in PubPairs |-> NotRewritten]
    /\ attached = {}
    /\ mounted = {}
    /\ mb_loop_device = NoDev
    /\ loop_device = NoDev

InitPublishRun ==
    /\ script = "generate-nginx-config"
    /\ InitProcs
    /\ InitBtrfsDir
    /\ InitAssetsDir
    /\ payload = [p \in Pairs |-> WholeImage]
    /\ InitNoResolver
    /\ InitNoPublish

\* any tree shape; the manifests are as extracted, or unreadable
PublishEntries(p) == VersionEntries({Garbage, PlainManifest(p)})
InitPublish ==
    /\ InitPublishRun
    /\ \E tree \in Trees(PublishEntries) : InitTree(tree)

\* complete version directories; any manifest
ManifestEntries(p) == CompleteEntries(ManifestDocs(p))
InitManifest ==
    /\ InitPublishRun
    /\ \E tree \in Trees(ManifestEntries) : InitTree(tree)

\* extract-btrfs.py and generate-nginx-config.py on the same tiles directory
InitDeployment ==
    /\ InitNoPublish
    /\ InitNoManifests
    /\ script = Deployment
    /\ InitProcs
    /\ tmp_dir = FALSE
    /\ gz = {}
    /\ img = {}
    /\ final = [p \in Pairs |-> {Content(p, TRUE)}]
    /\ InitTilesDir
    /\ InitAssetsDir
    /\ payload \in [Pairs -> ImageKinds]
    /\ InitNoResolver

Init == InitDownload \/ InitExtract \/ InitAssets
Next == NextDownload \/ NextExtract \/ NextAssets

Spec == Init /\ [][Next]_vars
SpecAssets == InitAssets /\ [][NextAssets]_vars
SpecExtract == InitExtract /\ [][NextExtract]_vars
SpecDownload == InitDownload /\ [][NextDownload]_vars
SpecResolver == InitResolver /\ [][NextResolver]_vars
SpecPublish == InitPublish /\ [][NextPublish]_vars
SpecManifest == InitManifest /\ [][NextPublish]_vars
\* the publish run reads the tiles directory that the extraction writes;
\* extract_tiles places no tilejson.json, so the hostname has no effect there
NextDeployment ==
    \/ NextExtract
    \/ PubStart(DataTiles, "localhost")
    \/ PubArea
    \/ PubVersion
    \/ PubMetadata
    \/ PubWriteVersions
    \/ PubLatest
    \/ PubWriteLatest
SpecDeployment == InitDeployment /\ [][NextDeployment]_vars

(***************************************************************************)
(* Claims about download_area                                              *)
(***************************************************************************)
Stepped(i) == pc'[i] # pc[i] \/ ret'[i] # ret[i] \/ arg'[i] # arg[i]

\* C2: tiles.btrfs of a pair appears only by the rename step of an
\* invocation for that pair, and what appears is the fully downloaded and
\* fully decompressed image of that same pair.
C2_AtomicPlacement ==
    [][\A p \in Pairs :
          final'[p] # final[p] =>
              /\ \E i \in Procs :
                    arg[i] = p /\ pc[i] = "dl_rename" /\ pc'[i] = "dl_rm"
              /\ final'[p] = {Content(p, TRUE)}]_vars

\* C6: at the disk-space test, a known size S with F < 3*S makes
\* download_area return False without touching the filesystem; F >= 3*S,
\* or an unknown size, lets the download start.
C6_PreflightGate ==
    [][\A i \in Procs :
          (pc[i] = "dl_gate" /\ Stepped(i) /\ ret'[i] # "killed") =>
              /\ (file_size[i] > 0 /\ free_space[i] < 3 * file_size[i]) =>
                    (pc'[i] = "done" /\ ret'[i] = "False" /\ UNCHANGED dl_fs)
              /\ (file_size[i] = 0 \/ free_space[i] >= 3 * file_size[i]) =>
                    pc'[i] = "dl_download"]_vars

C6_Witness ==
    \E i \in Procs :
        /\ pc[i] = "dl_download"
        /\ file_size[i] > 0
        /\ free_space[i] = 3 * file_size[i]

\* C8: two invocations for the same pair are never both past the
\* "already exists" check.
C8_SamePairExclusion ==
    \A i, j \in Procs :
        (i # j /\ InSection(i) /\ InSection(j)) => arg[i] # arg[j]

\* C9: while two invocations for different pairs are both running, a step
\* of one leaves the other's staged files alone, and whatever it places
\* under its final path is the image of its own pair.
C9_DifferentPairIsolation ==
    [][\A i, j \in Procs :
          (i # j /\ InSection(i) /\ InSection(j) /\ arg[i] # arg[j] /\ Stepped(i)) =>
              /\ (gz # {} /\ FileOf(gz).pair = arg[j]) => gz' = gz
              /\ (img # {} /\ FileOf(img).pair = arg[j]) => img' = img
              /\ final'[arg[i]] # final[arg[i]] =>
                    final'[arg[i]] = {Content(arg[i], TRUE)}]_vars


(***************************************************************************)
(* Fairness: tools terminate and the operator keeps rerunning the scripts; *)
(* the number of failures is bounded, so from some point on tools succeed. *)
(***************************************************************************)
FairSpec ==
    /\ Spec
    /\ \A i \in Procs : WF_vars(DownloadStep(i))
    /\ WF_vars(NextExtract)
    /\ WF_vars(NextAssets)

(***************************************************************************)
(* Claims about extract_tiles, download_asset and the scripts              *)
(***************************************************************************)
ExtractComplete(p) ==
    tiles[p] = "full" /\ (payload[p].metadata => metadata[p])

\* C1: whenever a later invocation finds the completeness gate true (tiles/
\* exists under the output directory; ofm/ exists and is non-empty), the
\* whole payload has been written.
C1_GateImpliesComplete ==
    /\ (At("ex_gate") /\ final[Item] # {} /\ already_extracted(Item)) =>
          ExtractComplete(Item)
    /\ (At("as_gate") /\ populated(ofm[Item])) => ofm[Item] = "full"

\* C3: once an acquisition of an item has returned True, a call for the
\* same item that reaches the gate returns True through the skip branch and
\* changes nothing on disk.
C3_Idempotent ==
    [][/\ \A i \in Procs :
             (pc[i] = "dl_check" /\ arg[i] \in acquired /\ Stepped(i)
                 /\ ret'[i] # "killed") =>
                 (pc'[i] = "done" /\ ret'[i] = "True" /\ UNCHANGED dl_fs)
       /\ (At("ex_gate") /\ Item \in acquired /\ Stepped(Runner)
              /\ ret'[Runner] # "killed") =>
              (pc'[Runner] = "ex_returned" /\ ret'[Runner] = "True"
                  /\ UNCHANGED <<ex_fs, dl_fs>>)
       /\ (At("as_gate") /\ Item \in acquired /\ Stepped(Runner)
              /\ ret'[Runner] # "killed") =>
              (pc'[Runner] = "as_returned" /\ ret'[Runner] = "True"
                  /\ UNCHANGED as_fs)]_vars

C3_Witness ==
    \E i \in Procs :
        /\ pc[i] = "dl_check"
        /\ arg[i] \in acquired
        /\ final[arg[i]] = {Content(arg[i], TRUE)}

\* C4: when extract_tiles has returned (or raised), the loop device it
\* obtained is neither attached nor mounted.
C4_LoopDeviceReleased ==
    (script = "extract-btrfs"
        /\ (At("ex_returned") \/ (At("done") /\ ret[Runner] = "raised"))) =>
        (mb_loop_device \notin attached /\ mb_loop_device \notin mounted)

\* C5: a script that exits with status 0 has not logged the failure of any
\* step it attempted.
C5_ExitStatus ==
    \A i \in Procs : exit_status[i] = "0" => ~error_logged[i]

\* C7: get_latest_version returns the lexicographic maximum of the set of
\* versions extracted from the matching lines, and None when that set is
\* empty.
ExtractedVersions(lines, area) ==
    { Split(lines[k])[3] :
        k \in { j \in 1..Len(lines) :
                  line_matches(lines[j], area) /\ Len(Split(lines[j])) >= 4 } }

C7_LatestIsMaximum ==
    (script = "resolver" /\ http_ok /\ latest # Pending) =>
        LET S == ExtractedVersions(listing, area_req)
        IN  IF S = {} THEN latest = None
            ELSE /\ latest.tag = "str"
                 /\ latest.val \in S
                 /\ \A v \in S : LexLeq(v, latest.val)

C7_Witness ==
    /\ script = "resolver"
    /\ latest.tag = "str"
    /\ LET versions == collect_versions(listing, area_req)
       IN  /\ Len(versions) >= 2
           /\ versions[Len(versions)] # latest.val
           /\ versions[1] # latest.val

\* C10: after failures have stopped, rerunning eventually leaves every
\* acquisition that is rerun with a complete final path.
C10_RerunRecovers ==
    /\ \A p \in Pairs :
          (script = "extract-btrfs" /\ final[p] # {} /\ payload[p].tiles)
              ~> ExtractComplete(p)
    /\ \A n \in Assets : (script = "download-assets") ~> (ofm[n] = "full")
    /\ \A p \in Pairs :
          (script = "init-download" /\ []<>(\E i \in Procs : pc[i] = "dl_check" /\ arg[i] = p))
              ~> (final[p] = {Content(p, TRUE)})

(***************************************************************************)
(* Claims about generate-nginx-config.py                                   *)
(***************************************************************************)
Publishing == script = "generate-nginx-config"

\* the (area, version) directories of the tree read by the running publish
\* run that hold both tiles/ and metadata.json
Complete(p) ==
    /\ tiles_dir = DataTiles
    /\ p[1] \notin plain
    /\ p \notin plain
    /\ out_dir[p]
    /\ tiles[p] # "absent"
    /\ metadata[p]

FragmentsFor(configs, p) ==
    {n \in 1..Len(configs) : configs[n].area = p[1] /\ configs[n].version = p[2]}

\* C11: when generate_tile_locations returns, its list holds exactly one
\* version fragment for every (area, version) directory that has both
\* tiles/ and metadata.json and none for any other name; the only errors it
\* prints are those of a manifest that cannot be updated, never one for an
\* incomplete directory.
C11_PublishEnumeration ==
    (Publishing /\ PubAt("pub_write_versions")) =>
        /\ \A p \in TreePairs :
              Cardinality(FragmentsFor(version_configs, p)) =
                  IF Complete(p) THEN 1 ELSE 0
        /\ \A n \in 1..Len(version_configs) :
              <<version_configs[n].area, version_configs[n].version>> \in TreePairs
        /\ error_logged[Publisher] =>
              \E p \in TreePairs :
                 Complete(p) /\ tilejson[p] # {} /\ FileOf(tilejson[p]).kind # "object"

C11_Witness ==
    /\ Publishing
    /\ PubAt("pub_write_versions")
    /\ Len(version_configs) = 1
    /\ \E p \in TreePairs :
          out_dir[p] /\ p \notin plain /\ tiles[p] # "absent" /\ ~metadata[p]
    /\ \E p \in TreePairs : out_dir[p] /\ tiles[p] = "absent" /\ metadata[p]

\* C12: when generate_latest_redirects returns, every area with at least
\* one publishable version (tiles/ and metadata.json both present) has
\* exactly one alias fragment set, and that set serves the lexicographically
\* greatest publishable version of the area, also when a greater version
\* directory exists that is still incomplete.
C12_LatestAlias ==
    (Publishing /\ PubAt("pub_write_latest")) =>
        \A a \in TreeAreas :
            LET publishable_versions == {p[2] : p \in {q \in TreePairs :
                                                q[1] = a /\ Complete(q)}}
                aliases == {n \in 1..Len(latest_configs) : latest_configs[n].area = a}
            IN  publishable_versions # {} =>
                  /\ Cardinality(aliases) = 1
                  /\ \A n \in aliases :
                        /\ latest_configs[n].config.version \in publishable_versions
                        /\ \A v \in publishable_versions :
                              LexLeq(v, latest_configs[n].config.version)

\* C13: after every publish run, tiles-versions.conf and tiles-latest.conf
\* hold exactly the fragments that the run produced from the tree and the
\* hostname it was given; when the run produced no fragments of a kind, no
\* document with fragments of an earlier run is left.
C13_TotalRegeneration ==
    (Publishing /\ PubAt("done")) =>
        /\ \A text \in versions_conf : text = join(version_configs)
        /\ \A text \in latest_conf : text = join(latest_configs)

\* C14: once tilejson.json of a pair has been updated with a hostname, no
\* step of a run with that same hostname changes the bytes of the file.
C14_RewriteIdempotent ==
    [][\A p \in TreePairs :
          (rewritten[p].host = domain /\ domain' = domain) =>
              tilejson'[p] = tilejson[p]]_vars

C14_Witness ==
    /\ Publishing
    /\ \E p \in TreePairs :
          /\ rewritten[p].again
          /\ tilejson[p] # {}
          /\ FileOf(tilejson[p]).kind = "object"
          /\ \E n \in 1..Len(FileOf(tilejson[p]).members) :
                FileOf(tilejson[p]).members[n][1] # "tiles"

\* the members of a JSON object as a reader sees them: the last of equal keys
KeysOf(doc) == {doc.members[n][1] : n \in 1..Len(doc.members)}
ValueOf(doc, k) ==
    LET last == CHOOSE n \in 1..Len(doc.members) :
                   /\ doc.members[n][1] = k
                   /\ \A m \in (n + 1)..Len(doc.members) : doc.members[m][1] # k
    IN  doc.members[last][2]

\* the step visits the version directory p and finds a manifest there
Updates(p) ==
    /\ Publishing
    /\ Len(version_configs') = Len(version_configs) + 1
    /\ version_configs'[Len(version_configs')].area = p[1]
    /\ version_configs'[Len(version_configs')].version = p[2]
    /\ tilejson[p] # {}

\* C19: the update of tilejson.json keeps every member other than 'tiles'
\* with its value, and sets 'tiles' to one URL template for this area and
\* version on the given hostname, with scheme http exactly when the
\* hostname is 'localhost' and https otherwise; a document that is not a
\* JSON object is left as it is.
C19_RewriteFrame ==
    [][\A p \in TreePairs :
          Updates(p) =>
              LET old == FileOf(tilejson[p])
                  new == FileOf(tilejson'[p])
              IN  IF old.kind = "object"
                  THEN /\ new.kind = "object"
                       /\ KeysOf(new) = KeysOf(old) \cup {"tiles"}
                       /\ \A k \in KeysOf(old) \ {"tiles"} :
                             ValueOf(new, k) = ValueOf(old, k)
                       /\ ValueOf(new, "tiles") =
                             JsonList(<<[scheme |-> IF domain = "localhost"
                                                    THEN "http" ELSE "https",
                                         host |-> domain,
                                         area |-> p[1], version |-> p[2],
                                         template |-> "{z}/{x}/{y}.pbf"]>>)
                  ELSE new = old]_vars

C19_Witness ==
    /\ Publishing
    /\ \E p \in TreePairs :
          /\ rewritten[p].host = "tiles.example.org"
          /\ tilejson[p] # {}
          /\ FileOf(tilejson[p]).kind = "object"
          /\ {"name", "tiles"} \subseteq KeysOf(FileOf(tilejson[p]))
          /\ ValueOf(FileOf(tilejson[p]), "tiles").urls[1].scheme = "https"

\* C20: every path named in a fragment held by the publisher exists in the
\* tree: tilejson.json and tiles/ of a version fragment, and tilejson.json,
\* the version directory and tiles/ of an alias fragment.
C20_FragmentsReferToFiles ==
    Publishing =>
        /\ \A n \in 1..Len(version_configs) :
              /\ path_exists(version_configs[n].config.exact_alias)
              /\ path_exists(version_configs[n].config.prefix_alias)
        /\ \A n \in 1..Len(latest_configs) :
              /\ path_exists(latest_configs[n].config.exact_alias)
              /\ path_exists(latest_configs[n].config.wildcard_root)
              /\ path_exists(latest_configs[n].config.tiles_root)

(***************************************************************************)
(* Claims about failures                                                   *)
(***************************************************************************)
\* the multi-item script has ended by itself (it was not terminated)
RunEnded ==
    /\ script \in {"extract-btrfs", "download-assets"}
    /\ At("done")
    /\ ret[Runner] # "killed"

\* C15: in extract_all_areas and download_all_assets the failure of one item
\* does not keep the remaining items from being attempted (when the script
\* has ended, no image and no sprite version is left unvisited), and when
\* any item has failed the overall result of the run is false (the
\* `success` flag, or the script has ended with an exception).
C15_FailureIsolation ==
    (RunEnded /\ error_logged[Runner]) =>
        /\ queue = <<>>
        /\ sprites_remote = <<>>
        /\ ~success \/ ret[Runner] = "raised"

\* C16: a step in which an external tool of an acquisition exits non-zero
\* (aria2c, unpigz, rm in download_area; aria2c, tar in download_asset;
\* losetup, mount, rsync in extract_tiles) makes the acquisition return
\* False, and leaves no completed final path that was not there before.
C16_ToolFailureReturnsFalse ==
    [][/\ \A i \in Procs :
             (DownloadFail(i) \/ UnpigzRefuse(i) \/ UnpigzFail(i)
                  \/ RemoveTempFail(i)) =>
                 (ret'[i] = "False" /\ final' = final)
       /\ (AsDownloadFail \/ AsTarTruncated \/ AsTarFail) =>
              (ret'[Runner] = "False" /\ (ofm'[Item] = "full" => ofm[Item] = "full"))
       /\ (ExAttachFail \/ ExMountFail \/ ExRsyncFail) =>
              (ret'[Runner] = "False"
                  /\ (ExtractComplete(Item)' => ExtractComplete(Item)))]_vars

(***************************************************************************)
(* Claims about the order of the gate and the remote requests              *)
(***************************************************************************)
\* C17: in every invocation of download_area, version 'latest' included, no
\* remote request has been issued when the invocation tests whether the
\* final path of its pair exists; so an invocation that finds the pair
\* already complete has made no remote request at all.
C17_GateBeforeNetwork ==
    \A i \in Procs : pc[i] = "dl_check" => ~remote[i]

(***************************************************************************)
(* Claims about the listing filter                                         *)
(***************************************************************************)
\* the line has the form areas/<area>/<version>/tiles.btrfs.gz
WellFormed(line, area, version) ==
    Split(line) = <<str_areas, area, version, str_archive>>

\* C18: the value returned by get_latest_version is the <version> segment
\* of some listing line of the form areas/<area>/<version>/tiles.btrfs.gz
\* for the requested area; no other line contributes to the result.
C18_ResolverFiltering ==
    (script = "resolver" /\ latest # Pending /\ latest # None) =>
        \E k \in 1..Len(listing) : WellFormed(listing[k], area_req, latest.val)

(***************************************************************************)
(* Claims about a publish run beside an extraction                         *)
(***************************************************************************)
\* C21: while extract-btrfs.py and generate-nginx-config.py work on the same
\* tiles directory, in any interleaving and also after a failed or
\* terminated extraction, every version fragment the publisher holds is for
\* a pair whose tile copy has finished successfully (and whose
\* metadata.json has been placed).
C21_PublishAfterCopy ==
    script = Deployment =>
        \A n \in 1..Len(version_configs) :
            LET p == <<version_configs[n].area, version_configs[n].version>>
            IN  tiles[p] = "full" /\ metadata[p]

\* the publisher has found tiles/ of the pair that is being copied and went
\* on without a fragment for it, after emitting one for the other pair
C21_Witness ==
    /\ script = Deployment
    /\ At("ex_rsync")
    /\ tiles[Item] = "partial"
    /\ PubAt("pub_version")
    /\ arg[Publisher] = Item
    /\ Len(version_configs) = 1

====
